---- MODULE Spec2Model ----
(***************************************************************************)
(* A model of the PPO training engine of the pursuer demo:                 *)
(*   webgame/algorithms/ppo.py   train_ppo                                 *)
(*   webgame/train_agents.py     the __main__ sample/train loop            *)
(*   webgame/envs.py             GameEnv.step / GameEnv.reset              *)
(*                                                                         *)
(* Spec        train_ppo, called with bounded configurations               *)
(* SpecMain    the outer loop of train_agents.py                           *)
(* SpecEnv     GameEnv.step and GameEnv.reset over an opaque game          *)
(* SpecSample  the per-sample policy objective of train_ppo                *)
(* SpecLoss    the per-minibatch losses of train_ppo                       *)
(***************************************************************************)
EXTENDS Integers, Sequences, FiniteSets, TLC

\* ----------------------------------------------------------------- bounds
MaxTrainIters == 2
MaxGradSteps == 4
MaxBatches == 8
MaxCalls == 2
NumActions == 3
MaxBatchLen == 2
MaxPos == 2
MaxEnvCalls == 3
MaxTrainSteps == 3
MaxIterations == 2
MaxHorizon == 3
MaxEvalRuns == 2
MaxEvalSteps == 3

\* ------------------------------------------------------------ train_ppo
VARIABLES
    pc,         \* position inside train_ppo: idle, entry, epoch, batch, check, exit, returned
    cfg,        \* the arguments of the running call: train_iters, gradient_steps, n_batches, device
    calls,      \* number of train_ppo calls made so far
    epoch,      \* the loop variable of `for _ in range(train_iters)`
    i,          \* the enumerate index of the minibatch loop
    p_mode,     \* p_net.training: "train" or "eval"
    v_mode,     \* v_net.training
    p_loc,      \* where p_net's parameters reside: "cpu" or "cuda"
    v_loc,      \* where v_net's parameters reside
    params,     \* parameter version of each network object: p_net, v_net, v_copy
    frozenRef,  \* the object v_net_frozen refers to
    p_grad,     \* minibatches whose policy gradients are accumulated since the last zero_grad
    v_grad,     \* the same for the value network
    nSnap,      \* deepcopy calls made by the running call
    v_entry,    \* v_net's parameters when the running call was entered
    sgArg,      \* parameters of the snapshot passed to the latest samples_global call, -1 if none
    pStepLog,   \* 1-based minibatch indices of this epoch after which p_opt.step() ran
    vStepLog,   \* the same for v_opt.step()
    applied     \* <<policy, value>> gradient counts applied by the latest optimizer steps of the call

ppoVars == <<pc, cfg, calls, epoch, i, p_mode, v_mode, p_loc, v_loc, params,
             frozenRef, p_grad, v_grad, nSnap, v_entry, sgArg, pStepLog,
             vStepLog, applied>>

\* -------------------------------------------- one sample of a minibatch
VARIABLES
    spc,        \* "drawn" (a sample and its settings are given) or "computed"
    sIn,        \* the sample: old and new logits, mask, action, advantage, and epsilon, use_masks
    sOut        \* what ppo.py 71-85 computes from it

sampleVars == <<spc, sIn, sOut>>

\* ---------------------------------------------- the losses of a minibatch
VARIABLES
    lpc,        \* "drawn" or "computed"
    lIn,        \* the minibatch (ratio, advantage, value error per sample), entropy and settings
    lOut        \* p_loss and v_loss as backpropagated (ppo.py 84-97)

lossVars == <<lpc, lIn, lOut>>

\* ------------------------------------------------------------- GameEnv
VARIABLES
    epc,        \* "ready", "returned" (the last call returned) or "raised" (AssertionError)
    game_state, \* self.game_state: {} for None, {s} for a GameState s
    game_last,  \* what the game's latest step() or reset() handed back
    env_ret,    \* the value the last GameEnv call returned
    env_err,    \* the exception the last GameEnv call raised, "" if none
    env_calls   \* calls made on the environment

envVars == <<epc, game_state, game_last, env_ret, env_err, env_calls>>

\* -------------------------------------- train_agents.py, the outer loop
VARIABLES
    mpc,        \* position: sample, insert, final, train, raised
    mcfg,       \* Config: train_steps, iterations, device
    step,       \* the loop variable of `for step in range(cfg.iterations)`
    t,          \* sampling steps of this iteration taken so far
    agentIdx,   \* position in `for agent in env.agents`
    env_out,    \* dones of the latest env.step, per agent
    buffers,    \* agents[agent].buffer: the stored steps and the bootstrap flag
    mCall,      \* how the latest train_ppo call bound its arguments to parameters
    mCallFor,   \* the agent that call trains, "" before the first call
    mErr        \* the exception that ended the program, "" if none

mainVars == <<mpc, mcfg, step, t, agentIdx, env_out, buffers, mCall, mCallFor, mErr>>

\* ------------------------------------ advantage recursion of one slot
VARIABLES
    gpc,        \* "drawn" (a filled slot is given) or "computed"
    gIn,        \* the slot: rewards, values, dones, truncs per step, and the bootstrap value
    gOut        \* the advantages and returns computed for it

gaeVars == <<gpc, gIn, gOut>>

\* ------------------------------- train_agents.py, the evaluation phase
VARIABLES
    vpc,        \* position: run, step, endrun, done, raised
    vcfg,       \* Config: eval_steps, max_eval_steps
    run,        \* evaluation runs completed
    evalIter,   \* the loop variable of `for _ in range(cfg.max_eval_steps)`
    steps_taken,\* steps of the running evaluation run
    eval_done,  \* the dones mapping of the latest test_env.step
    runLog      \* per completed run: its steps and whether an agent was reported done

evalVars == <<vpc, vcfg, run, evalIter, steps_taken, eval_done, runLog>>

Devices == {"cpu", "cuda"}
Modes == {"train", "eval"}

Configs ==
    [train_iters : 0..MaxTrainIters, gradient_steps : 1..MaxGradSteps,
     n_batches : 0..MaxBatches, device : Devices]

NoConfig == [train_iters |-> 0, gradient_steps |-> 1, n_batches |-> 0, device |-> "cpu"]

\* nn.Module.train() / nn.Module.eval()
NetTrain(mode) == "train"
NetEvalSkipped(mode) == mode
NetEval(mode) == "eval"

\* `if device.type != "cpu": net.to(device)` and `if device.type != "cpu": net.cpu()`
MoveToDevice(loc, device) == IF device # "cpu" THEN device ELSE loc
MoveToHost(loc, device) == IF device # "cpu" THEN "cpu" ELSE loc

\* copy.deepcopy(v_net): a new object holding v_net's parameters
AliasVNet(ps) == [ref |-> "v_net", params |-> ps]
DeepCopyVNet(ps) == [ref |-> "v_copy", params |-> [ps EXCEPT !["v_copy"] = ps["v_net"]]]

\* `if (i + 1) % gradient_steps == 0`
ShouldStepZeroBased(idx, gs) == idx % gs = 0
ShouldStep(idx, gs) == (idx + 1) % gs = 0

\* optimizer.step(): the parameters of the optimizer's own network move on
OptStep(ps, net) == [ps EXCEPT ![net] = ps[net] + 1]

PpoIdle ==
    /\ pc = "idle"
    /\ cfg = NoConfig
    /\ calls = 0
    /\ epoch = 0
    /\ i = 0
    /\ p_mode = "train"
    /\ v_mode = "train"
    /\ p_loc = "cpu"
    /\ v_loc = "cpu"
    /\ params = [p_net |-> 0, v_net |-> 0, v_copy |-> 0]
    /\ frozenRef = "v_net"
    /\ p_grad = 0
    /\ v_grad = 0
    /\ nSnap = 0
    /\ v_entry = 0
    /\ sgArg = -1
    /\ pStepLog = {}
    /\ vStepLog = {}
    /\ applied = <<0, 0>>

PpoInit ==
    /\ pc = "idle"
    /\ cfg = NoConfig
    /\ calls = 0
    /\ epoch = 0
    /\ i = 0
    /\ p_mode \in Modes
    /\ v_mode \in Modes
    /\ p_loc = "cpu"
    /\ v_loc = "cpu"
    /\ params = [p_net |-> 0, v_net |-> 0, v_copy |-> 0]
    /\ frozenRef = "v_net"
    /\ p_grad = 0
    /\ v_grad = 0
    /\ nSnap = 0
    /\ v_entry = 0
    /\ sgArg = -1
    /\ pStepLog = {}
    /\ vStepLog = {}
    /\ applied = <<0, 0>>

\* The caller invokes train_ppo with a configuration.
Call ==
    /\ pc \in {"idle", "returned"}
    /\ calls < MaxCalls
    /\ \E c \in Configs : cfg' = c
    /\ calls' = calls + 1
    /\ pc' = "entry"
    /\ nSnap' = 0
    /\ v_entry' = params["v_net"]
    /\ sgArg' = -1
    /\ applied' = <<0, 0>>
    /\ pStepLog' = {}
    /\ vStepLog' = {}
    /\ UNCHANGED <<epoch, i, p_mode, v_mode, p_loc, v_loc, params, frozenRef,
                   p_grad, v_grad>>
    /\ UNCHANGED <<sampleVars, lossVars, envVars, mainVars, gaeVars, evalVars>>

\* ppo.py 39-50: modes, snapshot, device transfer, zero_grad.
Enter ==
    /\ pc = "entry"
    /\ p_mode' = NetTrain(p_mode)
    /\ LET snap == DeepCopyVNet(params)
       IN /\ frozenRef' = snap.ref
          /\ params' = snap.params
    /\ nSnap' = nSnap + 1
    /\ v_mode' = NetTrain(v_mode)
    /\ p_loc' = MoveToDevice(p_loc, cfg.device)
    /\ v_loc' = MoveToDevice(v_loc, cfg.device)
    /\ p_grad' = 0
    /\ v_grad' = 0
    /\ epoch' = 0
    /\ pc' = "epoch"
    /\ UNCHANGED <<cfg, calls, i, v_entry, sgArg, pStepLog, vStepLog, applied>>
    /\ UNCHANGED <<sampleVars, lossVars, envVars, mainVars, gaeVars, evalVars>>

\* ppo.py 52-53: the next epoch asks samples_global for its minibatches.
StartEpoch ==
    /\ pc = "epoch"
    /\ epoch < cfg.train_iters
    /\ sgArg' = params[frozenRef]
    /\ i' = 0
    /\ pStepLog' = {}
    /\ vStepLog' = {}
    /\ pc' = "batch"
    /\ UNCHANGED <<cfg, calls, epoch, p_mode, v_mode, p_loc, v_loc, params,
                   frozenRef, p_grad, v_grad, nSnap, v_entry, applied>>
    /\ UNCHANGED <<sampleVars, lossVars, envVars, mainVars, gaeVars, evalVars>>

\* ppo.py 54-97: one minibatch; both losses are backpropagated.
Minibatch ==
    /\ pc = "batch"
    /\ i < cfg.n_batches
    /\ p_grad' = p_grad + 1
    /\ v_grad' = v_grad + 1
    /\ pc' = "check"
    /\ UNCHANGED <<cfg, calls, epoch, i, p_mode, v_mode, p_loc, v_loc, params,
                   frozenRef, nSnap, v_entry, sgArg, pStepLog, vStepLog, applied>>
    /\ UNCHANGED <<sampleVars, lossVars, envVars, mainVars, gaeVars, evalVars>>

\* ppo.py 99-105: clip, step both optimizers, zero both gradients.
OptimizerStep ==
    /\ pc = "check"
    /\ ShouldStep(i, cfg.gradient_steps)
    /\ params' = OptStep(OptStep(params, "p_net"), "v_net")
    /\ pStepLog' = pStepLog \cup {i + 1}
    /\ vStepLog' = vStepLog \cup {i + 1}
    /\ applied' = <<p_grad, v_grad>>
    /\ p_grad' = 0
    /\ v_grad' = 0
    /\ i' = i + 1
    /\ pc' = "batch"
    /\ UNCHANGED <<cfg, calls, epoch, p_mode, v_mode, p_loc, v_loc, frozenRef,
                   nSnap, v_entry, sgArg>>
    /\ UNCHANGED <<sampleVars, lossVars, envVars, mainVars, gaeVars, evalVars>>

\* ppo.py 99: the condition is false, the gradients stay accumulated.
SkipStep ==
    /\ pc = "check"
    /\ ~ShouldStep(i, cfg.gradient_steps)
    /\ i' = i + 1
    /\ pc' = "batch"
    /\ UNCHANGED <<cfg, calls, epoch, p_mode, v_mode, p_loc, v_loc, params,
                   frozenRef, p_grad, v_grad, nSnap, v_entry, sgArg, pStepLog,
                   vStepLog, applied>>
    /\ UNCHANGED <<sampleVars, lossVars, envVars, mainVars, gaeVars, evalVars>>

\* ppo.py 54: the minibatch sequence is exhausted, the epoch ends.
EndEpoch ==
    /\ pc = "batch"
    /\ i >= cfg.n_batches
    /\ epoch' = epoch + 1
    /\ pc' = "epoch"
    /\ UNCHANGED <<cfg, calls, i, p_mode, v_mode, p_loc, v_loc, params,
                   frozenRef, p_grad, v_grad, nSnap, v_entry, sgArg, pStepLog,
                   vStepLog, applied>>
    /\ UNCHANGED <<sampleVars, lossVars, envVars, mainVars, gaeVars, evalVars>>

\* ppo.py 107-113: back to host memory, evaluation mode, return.
Return ==
    /\ pc = "epoch"
    /\ epoch >= cfg.train_iters
    /\ p_loc' = MoveToHost(p_loc, cfg.device)
    /\ v_loc' = MoveToHost(v_loc, cfg.device)
    /\ p_mode' = NetEval(p_mode)
    /\ v_mode' = NetEval(v_mode)
    /\ pc' = "returned"
    /\ UNCHANGED <<cfg, calls, epoch, i, params, frozenRef, p_grad, v_grad,
                   nSnap, v_entry, sgArg, pStepLog, vStepLog, applied>>
    /\ UNCHANGED <<sampleVars, lossVars, envVars, mainVars, gaeVars, evalVars>>

PpoNext ==
    \/ Call
    \/ Enter
    \/ StartEpoch
    \/ Minibatch
    \/ OptimizerStep
    \/ SkipStep
    \/ EndEpoch
    \/ Return

\* ------------------------------------------------------------ numbers
\* Tensor entries are modelled as exact fractions <<n, d>> in lowest terms with
\* d >= 0; d = 0 stands for the IEEE values: <<1, 0>> is +inf, <<-1, 0>> is
\* -inf and <<0, 0>> is NaN.
Abs(x) == IF x < 0 THEN -x ELSE x

Sgn(x) == IF x > 0 THEN 1 ELSE IF x < 0 THEN -1 ELSE 0

RECURSIVE Gcd(_, _)
Gcd(a, b) == IF b = 0 THEN a ELSE Gcd(b, a % b)

RNorm(n, d) ==
    IF d = 0 THEN <<Sgn(n), 0>>
    ELSE LET g == Gcd(Abs(n), Abs(d))
         IN <<(Sgn(d) * n) \div g, Abs(d) \div g>>

RInt(k) == <<k, 1>>
RNaN == <<0, 0>>
IsNaN(x) == x = RNaN
RAdd(x, y) == IF IsNaN(x) \/ IsNaN(y) THEN RNaN
              ELSE RNorm(x[1] * y[2] + y[1] * x[2], x[2] * y[2])
RNeg(x) == <<-x[1], x[2]>>
RMul(x, y) == IF IsNaN(x) \/ IsNaN(y) THEN RNaN ELSE RNorm(x[1] * y[1], x[2] * y[2])
RDiv(x, y) == IF IsNaN(x) \/ IsNaN(y) THEN RNaN ELSE RNorm(x[1] * y[2], x[2] * y[1])
RLess(x, y) ==
    IF x[2] = 0 \/ y[2] = 0
    THEN (x[2] = 0 /\ x[1] < 0 /\ y # x) \/ (y[2] = 0 /\ y[1] > 0 /\ y # x)
    ELSE x[1] * y[2] < y[1] * x[2]
\* Tensor.min(other): elementwise minimum, NaN wins
RMin(x, y) == IF IsNaN(x) \/ IsNaN(y) THEN RNaN ELSE IF RLess(y, x) THEN y ELSE x
\* Tensor.sign()
RSign(x) == IF IsNaN(x) THEN RNaN ELSE RInt(Sgn(x[1]))

RECURSIVE RSum(_)
RSum(seq) == IF seq = <<>> THEN RInt(0) ELSE RAdd(Head(seq), RSum(Tail(seq)))

\* Tensor.mean()
RMean(seq) == RDiv(RSum(seq), RInt(Len(seq)))

\* ------------------------------------------- ppo.py 71-85, one sample
\* A logit vector is held as the vector of its exponentials exp(logit): a
\* positive integer weight per action, and 0 for a logit of -inf.
Actions == 1..NumActions

\* Tensor.masked_fill(action_masks, -torch.inf)
MaskedFill(w, mask) == [k \in Actions |-> IF k \in mask THEN 0 ELSE w[k]]

RECURSIVE WSum(_, _)
WSum(w, k) == IF k = 0 THEN 0 ELSE w[k] + WSum(w, k - 1)

\* Categorical(logits=w).probs: the softmax of the logits
Probs(w) == [k \in Actions |-> RNorm(w[k], WSum(w, NumActions))]

\* ppo.py 71-72: the recorded logits the old distribution is built from
OldLogits(s) ==
    IF s.use_masks THEN MaskedFill(s.action_probs, s.action_masks) ELSE s.action_probs

\* ppo.py 79-81: the fresh logits the new distribution is built from
NewLogitsUnmasked(s) == s.new_log_probs
NewLogits(s) ==
    IF s.use_masks THEN MaskedFill(s.new_log_probs, s.action_masks) ELSE s.new_log_probs

\* ppo.py 84: (new_act_probs - old_act_probs).exp()
RatioFactor(pnew, pold, a) == RDiv(pnew[a], pold[a])

\* ppo.py 84: term1
Term1(ratio, adv) == RMul(ratio, adv)

\* ppo.py 85: term2
Term2(eps, adv) == RMul(RAdd(RInt(1), RMul(eps, RSign(adv))), adv)

\* ppo.py 88: term1.min(term2)
PolicyTermClamped(ratio, adv, eps) ==
    RMul(RMin(RAdd(RInt(1), eps), IF RLess(ratio, RAdd(RInt(1), RNeg(eps)))
                                  THEN RAdd(RInt(1), RNeg(eps)) ELSE ratio), adv)
PolicyTerm(ratio, adv, eps) == RMin(Term1(ratio, adv), Term2(eps, adv))

OldWeights == {1, 2}
NewWeights == {1, 3}
Advantages == {RInt(-2), RInt(0), RInt(1)}
\* Config.epsilon, train_agents.py 44
Epsilons == {<<1, 5>>}

Samples ==
    [action_probs : [Actions -> OldWeights], new_log_probs : [Actions -> NewWeights],
     action_masks : (SUBSET Actions) \ {Actions}, use_masks : BOOLEAN,
     actions : Actions, advantages : Advantages, epsilon : Epsilons]

NoSample ==
    [action_probs |-> [k \in Actions |-> 1], new_log_probs |-> [k \in Actions |-> 1],
     action_masks |-> {}, use_masks |-> FALSE, actions |-> 1,
     advantages |-> RInt(0), epsilon |-> <<1, 5>>]

SampleOut(s) ==
    LET old == OldLogits(s)
        new == NewLogits(s)
        pold == Probs(old)
        pnew == Probs(new)
        ratio == RatioFactor(pnew, pold, s.actions)
    IN [old_logits |-> old, new_logits |-> new, old_probs |-> pold,
        new_probs |-> pnew, ratio |-> ratio,
        term1 |-> Term1(ratio, s.advantages),
        term |-> PolicyTerm(ratio, s.advantages, s.epsilon)]

SampleIdle ==
    /\ spc = "idle"
    /\ sIn = NoSample
    /\ sOut = SampleOut(NoSample)

\* A minibatch row as it arrives from the sampler (ppo.py 54-69).
SampleInit ==
    /\ spc = "drawn"
    /\ sIn \in Samples
    /\ sOut = SampleOut(NoSample)

\* ppo.py 71-88 on that row.
ComputeSample ==
    /\ spc = "drawn"
    /\ sOut' = SampleOut(sIn)
    /\ spc' = "computed"
    /\ UNCHANGED sIn
    /\ UNCHANGED <<ppoVars, lossVars, envVars, mainVars, gaeVars, evalVars>>

\* ------------------------------------------ ppo.py 84-97, one minibatch
\* ppo.py 87-89: p_loss
PLoss(terms, entropy, coeff, gs) ==
    RAdd(RDiv(RNeg(RMean(terms)), RInt(gs)), RMul(RNeg(entropy), coeff))

\* ppo.py 94-95: v_loss
VLoss(diffs, gs) ==
    RDiv(RMean([k \in 1..Len(diffs) |-> RMul(diffs[k], diffs[k])]), RInt(gs))

Ratios == {<<1, 2>>, RInt(1), <<3, 2>>}
Rows == [ratio : Ratios, adv : {RInt(-1), RInt(1)}, diff : {RInt(0), RInt(2)}]
RowSeqs == UNION {[1..n -> Rows] : n \in 1..MaxBatchLen}
Entropies == {RInt(0), RInt(1)}
\* entropy_coeff: the default of ppo.py 27 and a non-zero setting
EntropyCoeffs == {RInt(0), <<1, 100>>}

LossInputs ==
    [rows : RowSeqs, entropy : Entropies, entropy_coeff : EntropyCoeffs,
     gradient_steps : 1..MaxGradSteps, epsilon : Epsilons]

NoLossInput ==
    [rows |-> <<[ratio |-> RInt(1), adv |-> RInt(1), diff |-> RInt(0)]>>,
     entropy |-> RInt(0), entropy_coeff |-> RInt(0), gradient_steps |-> 1,
     epsilon |-> <<1, 5>>]

LossOut(b) ==
    LET terms == [k \in 1..Len(b.rows) |->
                     PolicyTerm(b.rows[k].ratio, b.rows[k].adv, b.epsilon)]
        diffs == [k \in 1..Len(b.rows) |-> b.rows[k].diff]
    IN [p_loss |-> PLoss(terms, b.entropy, b.entropy_coeff, b.gradient_steps),
        v_loss |-> VLoss(diffs, b.gradient_steps),
        surrogate |-> RNeg(RMean(terms)),
        mse |-> RMean([k \in 1..Len(diffs) |-> RMul(diffs[k], diffs[k])])]

LossIdle ==
    /\ lpc = "idle"
    /\ lIn = NoLossInput
    /\ lOut = LossOut(NoLossInput)

LossInit ==
    /\ lpc = "drawn"
    /\ lIn \in LossInputs
    /\ lOut = LossOut(NoLossInput)

\* ppo.py 84-97: both losses of the minibatch, as handed to backward().
ComputeLosses ==
    /\ lpc = "drawn"
    /\ lOut' = LossOut(lIn)
    /\ lpc' = "computed"
    /\ UNCHANGED lIn
    /\ UNCHANGED <<ppoVars, sampleVars, envVars, mainVars, gaeVars, evalVars>>

\* --------------------------------------------------- envs.py, GameEnv
Agents == <<"player", "pursuer">>
AgentSet == {"player", "pursuer"}

\* A GameState of the game engine: where the two agents are, and whether they
\* see each other.
GameStates == [player : 0..MaxPos, pursuer : 0..MaxPos, seen : BOOLEAN]

\* envs.py 127-181: an agent's observation, from its own state and the game state
AgentStateToObs(pos, gs, is_pursuer) ==
    [self |-> pos,
     visible |-> gs.seen,
     other |-> IF gs.seen THEN (IF is_pursuer THEN gs.player ELSE gs.pursuer) ELSE 0]

\* envs.py 100-110
GameStateToObs(gs) ==
    [player |-> AgentStateToObs(gs.player, gs, FALSE),
     pursuer |-> AgentStateToObs(gs.pursuer, gs, TRUE)]

\* envs.py 67 and 92: `assert self.game_state`
AssertState(field) == field # {}

\* envs.py 68 and 93: the state the observations are built from
ObsSourceStale(field, before) == IF before # {} THEN before ELSE field
ObsSource(field, before) == field

\* envs.py 69-85: what step returns
StepResult(gs) ==
    [kind |-> "step", obs |-> GameStateToObs(gs),
     rewards |-> [a \in AgentSet |-> 0], dones |-> [a \in AgentSet |-> FALSE],
     truncs |-> [a \in AgentSet |-> FALSE]]

\* envs.py 94-98: what reset returns
ResetResult(gs) ==
    [kind |-> "reset", obs |-> GameStateToObs(gs),
     rewards |-> [a \in AgentSet |-> 0], dones |-> [a \in AgentSet |-> FALSE],
     truncs |-> [a \in AgentSet |-> FALSE]]

NoReturn ==
    [kind |-> "none", obs |-> GameStateToObs([player |-> 0, pursuer |-> 0, seen |-> FALSE]),
     rewards |-> [a \in AgentSet |-> 0], dones |-> [a \in AgentSet |-> FALSE],
     truncs |-> [a \in AgentSet |-> FALSE]]

\* An Optional[GameState] as the game hands it back: {} is None.
GameResults == {{}} \cup {{gs} : gs \in GameStates}

EnvIdle ==
    /\ epc = "ready"
    /\ game_state = {}
    /\ game_last = {}
    /\ env_ret = NoReturn
    /\ env_err = ""
    /\ env_calls = 0

\* envs.py 45-54: after construction there is no game state yet.
EnvInit == EnvIdle

\* envs.py 56-85: GameEnv.step. The game answers with a state or with None;
\* the answer is stored, asserted, turned into observations and returned.
EnvStep ==
    /\ epc \in {"ready", "returned"}
    /\ env_calls < MaxEnvCalls
    /\ env_calls' = env_calls + 1
    /\ \E result \in GameResults :
          /\ game_last' = result
          /\ game_state' = result
          /\ IF AssertState(result)
             THEN LET src == ObsSource(result, game_state)
                  IN IF src = {}
                     THEN \* envs.py 108: None has no attribute `player`
                          /\ epc' = "raised"
                          /\ env_err' = "AttributeError"
                          /\ env_ret' = NoReturn
                     ELSE /\ epc' = "returned"
                          /\ env_err' = ""
                          /\ env_ret' = StepResult(CHOOSE gs \in src : TRUE)
             ELSE /\ epc' = "raised"
                  /\ env_err' = "AssertionError"
                  /\ env_ret' = NoReturn
    /\ UNCHANGED <<ppoVars, sampleVars, lossVars, mainVars, gaeVars, evalVars>>

\* envs.py 87-98: GameEnv.reset, the same with the game's reset().
EnvReset ==
    /\ epc \in {"ready", "returned"}
    /\ env_calls < MaxEnvCalls
    /\ env_calls' = env_calls + 1
    /\ \E result \in GameResults :
          /\ game_last' = result
          /\ game_state' = result
          /\ IF AssertState(result)
             THEN LET src == ObsSource(result, game_state)
                  IN IF src = {}
                     THEN /\ epc' = "raised"
                          /\ env_err' = "AttributeError"
                          /\ env_ret' = NoReturn
                     ELSE /\ epc' = "returned"
                          /\ env_err' = ""
                          /\ env_ret' = ResetResult(CHOOSE gs \in src : TRUE)
             ELSE /\ epc' = "raised"
                  /\ env_err' = "AssertionError"
                  /\ env_ret' = NoReturn
    /\ UNCHANGED <<ppoVars, sampleVars, lossVars, mainVars, gaeVars, evalVars>>

\* ------------------------------------- rollout buffer (RolloutBuffer)
\* One buffer: the transitions inserted since the last clear (the done flag
\* of each is kept) and whether the bootstrap observation is recorded.
EmptyBuffer == [steps |-> <<>>, final |-> FALSE]

\* insert_step: one more transition; refused beyond `horizon`
CanInsert(b, horizon) == Len(b.steps) < horizon
InsertStep(b, done) == [b EXCEPT !.steps = Append(@, done)]

\* insert_final_step: the bootstrap observation
InsertFinalStep(b) == [b EXCEPT !.final = TRUE]

\* -------------------------------------- train_agents.py, the outer loop
\* What is followed here is the control flow and which objects are handed to
\* which call. Network forward passes, sampled actions and tensor payloads are
\* opaque values: the argument expressions of lines 235 and 242-247 are not
\* evaluated, only the calls they feed are counted.
MainConfigs ==
    [train_steps : 1..MaxTrainSteps, iterations : 1..MaxIterations, device : Devices]

\* ppo.py 12-28: the parameters of train_ppo without a default, in order
TrainPpoRequired ==
    <<"p_net", "v_net", "p_opt", "v_opt", "buffer", "other", "device", "train_iters",
      "train_batch_size", "discount", "lambda_", "epsilon">>

\* ppo.py 25-28: the parameters with a default
TrainPpoOptional == <<"gradient_steps", "use_masks", "entropy_coeff", "gradient_clip">>

Partner(agent) == IF agent = "player" THEN "pursuer" ELSE "player"

Arg(kind, owner) == [kind |-> kind, owner |-> owner]

\* train_agents.py 256-268: the positional arguments of the train_ppo call
TrainArgs(agent) ==
    <<Arg("p_net", agent), Arg("v_net", agent), Arg("p_opt", agent),
      Arg("v_opt", agent), Arg("buffer", agent), Arg("device", "cfg"),
      Arg("train_iters", "cfg"), Arg("train_batch_size", "cfg"),
      Arg("discount", "cfg"), Arg("lambda_", "cfg"), Arg("epsilon", "cfg")>>

\* Python's binding of positional arguments to train_ppo's parameters: the
\* k-th argument goes to the k-th parameter; a required parameter left without
\* an argument, or an argument left without a parameter, is a TypeError.
BindTrainPpo(args) ==
    LET names == TrainPpoRequired \o TrainPpoOptional
        n == IF Len(args) < Len(names) THEN Len(args) ELSE Len(names)
    IN [ok |-> Len(args) >= Len(TrainPpoRequired) /\ Len(args) <= Len(names),
        bound |-> [name \in {names[k] : k \in 1..n} |->
                      args[CHOOSE k \in 1..n : names[k] = name]]]

MainIdle ==
    /\ mpc = "idle"
    /\ mcfg = [train_steps |-> 1, iterations |-> 1, device |-> "cpu"]
    /\ step = 0
    /\ t = 0
    /\ agentIdx = 1
    /\ env_out = [a \in AgentSet |-> FALSE]
    /\ buffers = [a \in AgentSet |-> EmptyBuffer]
    /\ mCall = BindTrainPpo(<<>>).bound
    /\ mCallFor = ""
    /\ mErr = ""

\* train_agents.py 166-227: configuration parsed, agents and empty buffers
\* built, the environments reset.
MainInit ==
    /\ mpc = "sample"
    /\ mcfg \in MainConfigs
    /\ step = 0
    /\ t = 0
    /\ agentIdx = 1
    /\ env_out = [a \in AgentSet |-> FALSE]
    /\ buffers = [a \in AgentSet |-> EmptyBuffer]
    /\ mCall = BindTrainPpo(<<>>).bound
    /\ mCallFor = ""
    /\ mErr = ""

\* train_agents.py 231-239: both policies choose actions, the environments step.
MainEnvStep ==
    /\ mpc = "sample"
    /\ step < mcfg.iterations
    /\ t < mcfg.train_steps
    /\ \E d \in [AgentSet -> BOOLEAN] : env_out' = d
    /\ agentIdx' = 1
    /\ mpc' = "insert"
    /\ UNCHANGED <<mcfg, step, t, buffers, mCall, mCallFor, mErr>>
    /\ UNCHANGED <<ppoVars, sampleVars, lossVars, envVars, gaeVars, evalVars>>

\* train_agents.py 240-249: the next agent's buffer takes the step; after the
\* last agent the observations are replaced and the sampling step is over.
MainInsertStep ==
    /\ mpc = "insert"
    /\ LET agent == Agents[agentIdx]
       IN IF CanInsert(buffers[agent], mcfg.train_steps)
          THEN /\ buffers' = [buffers EXCEPT ![agent] = InsertStep(@, env_out[agent])]
               /\ IF agentIdx < Len(Agents)
                  THEN /\ agentIdx' = agentIdx + 1
                       /\ mpc' = "insert"
                       /\ t' = t
                  ELSE /\ agentIdx' = 1
                       /\ mpc' = "sample"
                       /\ t' = t + 1
               /\ mErr' = ""
          ELSE /\ mpc' = "raised"
               /\ mErr' = "CapacityError"
               /\ UNCHANGED <<buffers, agentIdx, t>>
    /\ UNCHANGED <<mcfg, step, env_out, mCall, mCallFor>>
    /\ UNCHANGED <<ppoVars, sampleVars, lossVars, envVars, gaeVars, evalVars>>

\* train_agents.py 250-251: every buffer takes its bootstrap observation.
MainInsertFinal ==
    /\ mpc \in {"sample", "final"}
    /\ step < mcfg.iterations
    /\ t >= mcfg.train_steps
    /\ LET agent == Agents[agentIdx]
       IN buffers' = [buffers EXCEPT ![agent] = InsertFinalStep(@)]
    /\ IF agentIdx < Len(Agents)
       THEN /\ agentIdx' = agentIdx + 1
            /\ mpc' = "final"
       ELSE /\ agentIdx' = 1
            /\ mpc' = "train"
    /\ UNCHANGED <<mcfg, step, t, env_out, mCall, mCallFor, mErr>>
    /\ UNCHANGED <<ppoVars, sampleVars, lossVars, envVars, gaeVars, evalVars>>

\* train_agents.py 255-268: train_ppo is called for the next agent. The call
\* passes eleven positional arguments to a function of twelve required
\* parameters, so binding them raises TypeError and the program ends there;
\* lines 269-319 are never reached.
MainTrainCall ==
    /\ mpc = "train"
    /\ LET agent == Agents[agentIdx]
           call == BindTrainPpo(TrainArgs(agent))
       IN /\ ~call.ok
          /\ mCall' = call.bound
          /\ mCallFor' = agent
    /\ mErr' = "TypeError"
    /\ mpc' = "raised"
    /\ UNCHANGED <<mcfg, step, t, agentIdx, env_out, buffers>>
    /\ UNCHANGED <<ppoVars, sampleVars, lossVars, envVars, gaeVars, evalVars>>

MainNext ==
    \/ MainEnvStep
    \/ MainInsertStep
    \/ MainInsertFinal
    \/ MainTrainCall

EnvNext ==
    \/ EnvStep
    \/ EnvReset

\* ------------------- advantage recursion of one buffer slot (spec 4.2)
\* A filled slot: per step the reward, the snapshot's value of the step's
\* observation and the two flags; and the snapshot's value of the bootstrap
\* observation.
Discount == <<1, 2>>
Lambda == <<1, 3>>

Transitions ==
    [reward : {RInt(0), RInt(1)}, value : {RInt(0), RInt(1)},
     done : BOOLEAN, truncated : BOOLEAN]

Slots ==
    UNION {[steps : [1..h -> Transitions], bootstrap : {RInt(1)}] :
              h \in 1..MaxHorizon}

NoSlot ==
    [steps |-> <<[reward |-> RInt(0), value |-> RInt(0), done |-> FALSE,
                  truncated |-> FALSE]>>,
     bootstrap |-> RInt(0)]

\* the factor (1 - done_t): only `done` ends the episode, `truncated` does not
NotDoneNorTruncated(tr) == IF tr.done \/ tr.truncated THEN RInt(0) ELSE RInt(1)
NotDone(tr) == IF tr.done THEN RInt(0) ELSE RInt(1)

\* value_{t+1}: the next step's value, the bootstrap value after the last step
NextValue(slot, ts) ==
    IF ts = Len(slot.steps) THEN slot.bootstrap ELSE slot.steps[ts + 1].value

\* delta = reward_t + discount * value_{t+1} * (1 - done_t) - value_t
Delta(slot, ts) ==
    LET tr == slot.steps[ts]
    IN RAdd(RAdd(tr.reward, RMul(RMul(Discount, NextValue(slot, ts)), NotDone(tr))),
            RNeg(tr.value))

\* A = delta + discount * lambda * (1 - done_t) * A, backward from the last
\* step with A = 0 beyond it
RECURSIVE Advantage(_, _)
Advantage(slot, ts) ==
    IF ts > Len(slot.steps) THEN RInt(0)
    ELSE RAdd(Delta(slot, ts),
              RMul(RMul(RMul(Discount, Lambda), NotDone(slot.steps[ts])),
                   Advantage(slot, ts + 1)))

\* advantage_t = A; return_t = advantage_t + value_t
GaeOut(slot) ==
    [advantages |-> [ts \in 1..Len(slot.steps) |-> Advantage(slot, ts)],
     returns |-> [ts \in 1..Len(slot.steps) |->
                     RAdd(Advantage(slot, ts), slot.steps[ts].value)]]

GaeIdle ==
    /\ gpc = "idle"
    /\ gIn = NoSlot
    /\ gOut = GaeOut(NoSlot)

\* A slot as the sampling phase left it, with the snapshot's values.
GaeInit ==
    /\ gpc = "drawn"
    /\ gIn \in Slots
    /\ gOut = GaeOut(NoSlot)

\* ppo.py 53: samples_global computes the slot's advantages and returns.
ComputeAdvantages ==
    /\ gpc = "drawn"
    /\ gOut' = GaeOut(gIn)
    /\ gpc' = "computed"
    /\ UNCHANGED gIn
    /\ UNCHANGED <<ppoVars, sampleVars, lossVars, envVars, mainVars, evalVars>>

\* ------------------------------- train_agents.py, the evaluation phase
\* The evaluation phase of one iteration (train_agents.py 274-303) on
\* test_env, a GameEnv of its own (line 212) that has not been reset before.
EvalConfigs == [eval_steps : 1..MaxEvalRuns, max_eval_steps : 1..MaxEvalSteps]

\* Python's truth value of a mapping: true unless it is empty
Truthy(mapping) == DOMAIN mapping # {}

\* train_agents.py 299: `if eval_done`
BreakTest(dones) == Truthy(dones)

EvalIdle ==
    /\ vpc = "idle"
    /\ vcfg = [eval_steps |-> 1, max_eval_steps |-> 1]
    /\ run = 0
    /\ evalIter = 0
    /\ steps_taken = 0
    /\ eval_done = [a \in AgentSet |-> FALSE]
    /\ runLog = <<>>

EvalInit ==
    /\ vpc = "run"
    /\ vcfg \in EvalConfigs
    /\ run = 0
    /\ evalIter = 0
    /\ steps_taken = 0
    /\ eval_done = [a \in AgentSet |-> FALSE]
    /\ runLog = <<>>

\* train_agents.py 278-282: the next run starts, test_env.reset() (envs.py 87-98).
EvalReset ==
    /\ vpc = "run"
    /\ run < vcfg.eval_steps
    /\ env_calls' = env_calls + 1
    /\ \E result \in GameResults :
          /\ game_last' = result
          /\ game_state' = result
          /\ IF AssertState(result)
             THEN /\ epc' = "returned"
                  /\ env_err' = ""
                  /\ env_ret' = ResetResult(CHOOSE gs \in ObsSource(result, game_state) : TRUE)
                  /\ vpc' = "step"
             ELSE /\ epc' = "raised"
                  /\ env_err' = "AssertionError"
                  /\ env_ret' = NoReturn
                  /\ vpc' = "raised"
    /\ steps_taken' = 0
    /\ evalIter' = 0
    /\ UNCHANGED <<vcfg, run, eval_done, runLog>>
    /\ UNCHANGED <<ppoVars, sampleVars, lossVars, mainVars, gaeVars>>

\* train_agents.py 283-300: one pass of the step loop: both policies act,
\* test_env.step() (envs.py 56-85), the step is counted, then the break test.
EvalStep ==
    /\ vpc = "step"
    /\ evalIter < vcfg.max_eval_steps
    /\ env_calls' = env_calls + 1
    /\ \E result \in GameResults :
          /\ game_last' = result
          /\ game_state' = result
          /\ IF AssertState(result)
             THEN LET ret == StepResult(CHOOSE gs \in ObsSource(result, game_state) : TRUE)
                  IN /\ epc' = "returned"
                     /\ env_err' = ""
                     /\ env_ret' = ret
                     /\ eval_done' = ret.dones
                     /\ steps_taken' = steps_taken + 1
                     /\ evalIter' = evalIter + 1
                     /\ vpc' = IF BreakTest(ret.dones) \/ evalIter + 1 >= vcfg.max_eval_steps
                               THEN "endrun" ELSE "step"
             ELSE /\ epc' = "raised"
                  /\ env_err' = "AssertionError"
                  /\ env_ret' = NoReturn
                  /\ vpc' = "raised"
                  /\ UNCHANGED <<eval_done, steps_taken, evalIter>>
    /\ UNCHANGED <<vcfg, run, runLog>>
    /\ UNCHANGED <<ppoVars, sampleVars, lossVars, mainVars, gaeVars>>

\* train_agents.py 301-303: the run is over and its averages are taken.
EvalEndRun ==
    /\ vpc = "endrun"
    /\ runLog' = Append(runLog, [steps |-> steps_taken,
                                 done |-> \E a \in AgentSet : eval_done[a]])
    /\ run' = run + 1
    /\ vpc' = IF run + 1 < vcfg.eval_steps THEN "run" ELSE "done"
    /\ UNCHANGED <<vcfg, evalIter, steps_taken, eval_done>>
    /\ UNCHANGED <<ppoVars, sampleVars, lossVars, envVars, mainVars, gaeVars>>

EvalNext ==
    \/ EvalReset
    \/ EvalStep
    \/ EvalEndRun

\* ------------------------------------------------------ specifications
vars == <<ppoVars, sampleVars, lossVars, envVars, mainVars, gaeVars, evalVars>>

Init == PpoInit /\ SampleIdle /\ LossIdle /\ EnvIdle /\ MainIdle /\ GaeIdle /\ EvalIdle

Next == PpoNext

\* train_ppo, called MaxCalls times with configurations from Configs
Spec == Init /\ [][Next]_vars

InitMain == PpoIdle /\ SampleIdle /\ LossIdle /\ EnvIdle /\ MainInit /\ GaeIdle /\ EvalIdle

\* the outer loop of train_agents.py
SpecMain == InitMain /\ [][MainNext]_vars

InitEnv == PpoIdle /\ SampleIdle /\ LossIdle /\ EnvInit /\ MainIdle /\ GaeIdle /\ EvalIdle

\* GameEnv over a game that answers every call with a state or with None
SpecEnv == InitEnv /\ [][EnvNext]_vars

InitSample == PpoIdle /\ SampleInit /\ LossIdle /\ EnvIdle /\ MainIdle /\ GaeIdle /\ EvalIdle

\* one minibatch row through ppo.py 71-88
SpecSample == InitSample /\ [][ComputeSample]_vars

InitLoss == PpoIdle /\ SampleIdle /\ LossInit /\ EnvIdle /\ MainIdle /\ GaeIdle /\ EvalIdle

\* one minibatch through ppo.py 84-97
SpecLoss == InitLoss /\ [][ComputeLosses]_vars

InitGae == PpoIdle /\ SampleIdle /\ LossIdle /\ EnvIdle /\ MainIdle /\ GaeInit /\ EvalIdle

\* the advantage recursion over one filled slot
SpecGae == InitGae /\ [][ComputeAdvantages]_vars

InitEval == PpoIdle /\ SampleIdle /\ LossIdle /\ EnvInit /\ MainIdle /\ GaeIdle /\ EvalInit

\* the evaluation phase of one iteration of train_agents.py
SpecEval == InitEval /\ [][EvalNext]_vars

\* ------------------------------------------------------- claims: train_ppo

\* Minibatches of the running epoch that are completely processed (backward
\* pass and the step decision of ppo.py 99).
InEpoch == pc \in {"batch", "check"}

StepIndices(n, gs) == {k \in 1..n : k % gs = 0}

\* C1: within an epoch the optimizers are stepped exactly after the minibatches
\* whose 1-based index is a multiple of gradient_steps, policy and value
\* together, so an epoch of N minibatches steps each optimizer N \div
\* gradient_steps times.
C1_StepsPerEpoch ==
    /\ InEpoch =>
          /\ pStepLog = StepIndices(i, cfg.gradient_steps)
          /\ vStepLog = pStepLog
    /\ (pc = "batch" /\ i = cfg.n_batches) =>
          /\ Cardinality(pStepLog) = cfg.n_batches \div cfg.gradient_steps
          /\ Cardinality(vStepLog) = cfg.n_batches \div cfg.gradient_steps

C1_Witness ==
    /\ pc = "batch"
    /\ cfg.gradient_steps = 4
    /\ cfg.n_batches = 8
    /\ i = 8
    /\ pStepLog = {4, 8}
    /\ vStepLog = {4, 8}

\* C2: every optimizer step applies the gradients of exactly gradient_steps
\* minibatches (applied is <<0, 0>> until the call's first step).
C2_ExactAccumulation ==
    applied \in {<<0, 0>>, <<cfg.gradient_steps, cfg.gradient_steps>>}

\* C5: the running call took exactly one snapshot, the snapshot still holds
\* the parameters the value network had at call entry, and every
\* samples_global call of the call was given those parameters.
C5_SnapshotFrozen ==
    pc \in {"epoch", "batch", "check", "returned"} =>
        /\ nSnap = 1
        /\ params[frozenRef] = v_entry
        /\ sgArg \in {-1, v_entry}
        /\ pc \in {"batch", "check"} => sgArg = v_entry

C5_Witness ==
    /\ pc = "batch"
    /\ epoch >= 1
    /\ epoch = cfg.train_iters - 1
    /\ sgArg = v_entry
    /\ params["v_net"] # v_entry

\* C6: a returned call leaves both networks in evaluation mode on the host,
\* and both are in training mode wherever a minibatch is processed.
C6_ModesAndResidence ==
    /\ pc = "returned" =>
          /\ p_mode = "eval" /\ v_mode = "eval"
          /\ p_loc = "cpu" /\ v_loc = "cpu"
    /\ pc \in {"batch", "check"} => p_mode = "train" /\ v_mode = "train"

C6_Witness ==
    /\ pc = "returned"
    /\ cfg.device = "cuda"
    /\ calls = 1
    /\ cfg.n_batches > 0
    /\ cfg.train_iters > 0

\* ------------------------------------------------ claims: the outer loop

Complete(b) == Len(b.steps) = mcfg.train_steps /\ b.final

\* C3: every iteration takes each buffer through the whole cycle: train_steps
\* insert_step calls (never more between two clears), one insert_final_step,
\* the agent's training call on the complete buffer, then clear. So no
\* training call starts on an incomplete buffer, and the loop never stops
\* short of its last iteration or with a buffer still holding a segment.
C3_BufferCycle ==
    /\ \A a \in AgentSet : Len(buffers[a].steps) <= mcfg.train_steps
    /\ mpc = "train" => \A a \in AgentSet : Complete(buffers[a])
    /\ mpc = "raised" => /\ step = mcfg.iterations
                         /\ \A a \in AgentSet : buffers[a] = EmptyBuffer

\* C4: every train_ppo call of the loop receives the trained agent's buffer as
\* `buffer` and the partner's buffer as `other`, both complete.
C4_BothBuffersGiven ==
    mCallFor # "" =>
        /\ {"buffer", "other"} \subseteq DOMAIN mCall
        /\ mCall["buffer"] = Arg("buffer", mCallFor)
        /\ mCall["other"] = Arg("buffer", Partner(mCallFor))
        /\ Complete(buffers[mCallFor])
        /\ Complete(buffers[Partner(mCallFor)])

\* ------------------------------------------------- claims: the losses

\* C7: both backpropagated losses are their whole value divided by
\* gradient_steps: the policy loss including its entropy bonus, and the value loss.
C7_BothLossesDivided ==
    lpc = "computed" =>
        /\ lOut.p_loss =
              RDiv(RAdd(lOut.surrogate, RNeg(RMul(lIn.entropy, lIn.entropy_coeff))),
                   RInt(lIn.gradient_steps))
        /\ lOut.v_loss = RDiv(lOut.mse, RInt(lIn.gradient_steps))

RLeq(x, y) == ~RLess(y, x)

\* C8: the policy-objective term of a sample is the smaller of the unclamped
\* ratio_factor * advantage and (1 + epsilon * sign(advantage)) * advantage:
\* for advantage 1 and epsilon 0.2 it is the ratio up to 1.2 and 1.2 beyond, for
\* a negative advantage it is ratio * advantage once the ratio is at least
\* 1 - epsilon and (1 - epsilon) * advantage below that.
C8_SignKeyedClip ==
    (spc = "computed" /\ ~IsNaN(sOut.ratio)) =>
        LET r == sOut.ratio
            adv == sIn.advantages
            hi == RAdd(RInt(1), sIn.epsilon)
            lo == RAdd(RInt(1), RNeg(sIn.epsilon))
        IN /\ sOut.term1 = RMul(r, adv)
           /\ (adv = RInt(1) /\ sIn.epsilon = <<1, 5>>) =>
                 sOut.term = (IF RLeq(r, <<6, 5>>) THEN r ELSE <<6, 5>>)
           /\ RLess(RInt(0), adv) =>
                 sOut.term = (IF RLeq(r, hi) THEN RMul(r, adv) ELSE RMul(hi, adv))
           /\ RLess(adv, RInt(0)) =>
                 sOut.term = (IF RLeq(lo, r) THEN RMul(r, adv) ELSE RMul(lo, adv))
           /\ adv = RInt(0) => sOut.term = RInt(0)

C8_Witness ==
    /\ spc = "computed"
    /\ sIn.advantages = RInt(1)
    /\ sIn.epsilon = <<1, 5>>
    /\ sOut.ratio = <<3, 2>>
    /\ sOut.term = <<6, 5>>

\* C9: with use_masks every masked action has probability zero under the old
\* and under the new distribution, and a mask that leaves one action gives that
\* action probability 1 under both; without use_masks both logit vectors are
\* used as they came.
C9_MaskBothDistributions ==
    spc = "computed" =>
        /\ sIn.use_masks =>
              /\ \A k \in sIn.action_masks :
                    sOut.old_probs[k] = RInt(0) /\ sOut.new_probs[k] = RInt(0)
              /\ \A v \in Actions :
                    sIn.action_masks = Actions \ {v} =>
                        sOut.old_probs[v] = RInt(1) /\ sOut.new_probs[v] = RInt(1)
        /\ ~sIn.use_masks =>
              /\ sOut.old_logits = sIn.action_probs
              /\ sOut.new_logits = sIn.new_log_probs

C9_Witness ==
    /\ spc = "computed"
    /\ sIn.use_masks
    /\ \E v \in Actions :
          /\ sIn.action_masks = Actions \ {v}
          /\ \E k \in Actions : sIn.action_probs[k] > sIn.action_probs[v]
          /\ \E k \in Actions : sIn.new_log_probs[k] > sIn.new_log_probs[v]
          /\ sOut.old_probs[v] = RInt(1)
          /\ sOut.new_probs[v] = RInt(1)

\* ------------------------------------------------------ claims: GameEnv

\* C10: a step or reset for which the game hands back no state ends in an
\* AssertionError and returns nothing; a call that returns hands out the
\* observations of both agents, built from the state the game just handed back.
C10_NoStateIsFatal ==
    /\ (env_calls > 0 /\ game_last = {}) =>
          /\ epc = "raised"
          /\ env_err = "AssertionError"
          /\ env_ret = NoReturn
    /\ epc = "raised" => game_last = {}
    /\ epc = "returned" =>
          /\ env_ret.kind \in {"step", "reset"}
          /\ DOMAIN env_ret.obs = AgentSet
          /\ \A gs \in game_last : env_ret.obs = GameStateToObs(gs)
          /\ game_last # {}

C10_Witness ==
    /\ epc = "raised"
    /\ env_err = "AssertionError"
    /\ env_calls >= 2
    /\ env_ret = NoReturn

\* -------------------------------------- claims: the advantage recursion

\* The slot cut after step t, with another bootstrap value: nothing of the
\* steps after t is left in it.
CutAfter(slot, ts, boot) ==
    [steps |-> [j \in 1..ts |-> slot.steps[j]], bootstrap |-> boot]

\* C11: at a step t with done_t = 1 the advantage is reward_t - value_t, and
\* the advantages and returns up to t are those of the slot cut after t,
\* whatever bootstrap value is put there: nothing after a termination reaches
\* them. A step that is only truncated takes the full recursion
\* delta_t + discount * lambda * A_{t+1}.
C11_NoLeakAcrossDone ==
    gpc = "computed" =>
        LET h == Len(gIn.steps)
        IN /\ \A ts \in 1..h :
                 gIn.steps[ts].done =>
                     /\ gOut.advantages[ts] =
                           RAdd(gIn.steps[ts].reward, RNeg(gIn.steps[ts].value))
                     /\ \A boot \in {RInt(5)} :
                           LET cut == GaeOut(CutAfter(gIn, ts, boot))
                           IN /\ [j \in 1..ts |-> gOut.advantages[j]] = cut.advantages
                              /\ [j \in 1..ts |-> gOut.returns[j]] = cut.returns
           /\ \A ts \in 1..h :
                 (gIn.steps[ts].truncated /\ ~gIn.steps[ts].done) =>
                     gOut.advantages[ts] =
                         RAdd(RAdd(RAdd(gIn.steps[ts].reward,
                                        RMul(Discount, NextValue(gIn, ts))),
                                   RNeg(gIn.steps[ts].value)),
                              RMul(RMul(Discount, Lambda),
                                   IF ts = h THEN RInt(0) ELSE gOut.advantages[ts + 1]))

\* A termination in the middle of the slot with a non-zero reward, value and
\* bootstrap value after it, and a truncated step before it that carries the
\* later advantage on.
C11_Witness ==
    /\ gpc = "computed"
    /\ Len(gIn.steps) = 3
    /\ gIn.steps[2].done
    /\ gIn.steps[1].truncated /\ ~gIn.steps[1].done
    /\ gIn.steps[3].reward = RInt(1)
    /\ gIn.steps[3].value = RInt(1)
    /\ gIn.bootstrap = RInt(1)
    /\ gIn.steps[2].reward = RInt(1)
    /\ gOut.advantages[2] = RInt(1)
    /\ gOut.advantages[1] # RAdd(gIn.steps[1].reward, RNeg(gIn.steps[1].value))

\* ------------------------------------------ claims: the evaluation phase

\* C12: an evaluation run ends only when an agent was reported done or when
\* max_eval_steps steps were taken; a run in which no agent is ever done takes
\* exactly max_eval_steps steps.
C12_RunsUntilDone ==
    /\ vpc = "endrun" =>
          (\E a \in AgentSet : eval_done[a]) \/ steps_taken = vcfg.max_eval_steps
    /\ \A j \in 1..Len(runLog) :
          runLog[j].done \/ runLog[j].steps = vcfg.max_eval_steps

====
